---- MODULE Spec2Model ----
(***************************************************************************)
(* Tornis: a store for the browser viewport.  The model follows the        *)
(* Tornis class (constructor, event handlers, update loop, watch/unwatch,  *)
(* formatData, recalibrateOrientation) in a browser (isSSR = false).       *)
(*                                                                         *)
(* JavaScript values that may be `undefined` (scrollXVelocity,             *)
(* scrollYVelocity, initialAlpha/Beta/Gamma are never set by the           *)
(* constructor) are modelled as sequences: <<>> is undefined, <<n>> is the *)
(* number n.  All numbers of the model are integers, so Math.floor is the  *)
(* identity on them except inside getMean, where the division is floored.  *)
(***************************************************************************)
EXTENDS Integers, Sequences, FiniteSets, TLC

VARIABLES
  tornis,     \* the fields of the Tornis singleton
  window,     \* pageXOffset, pageYOffset, screenX, screenY, innerWidth/Height
  document,   \* document.body.scrollHeight
  now,        \* new Date().getTime()
  lastCall,   \* the lastCall closure variable of each throttled handler
  raf,        \* number of update callbacks pending in requestAnimationFrame
  lastOp,     \* the operation performed by the most recent step
  invoked,    \* the subscriber calls made by the most recent step, in order
  thrown,     \* the error raised by the most recent step ("none" if none)
  returned,   \* the value returned by the most recent step (<<>> if none)
  history,    \* what the most recent ticks saw and reported, oldest first
  calibrated, \* recalibrated, and the last-known orientation unchanged since
  nEvents,    \* number of native changes so far
  quietTicks  \* ticks in a row, up to now, that found no native change

vars == <<tornis, window, document, now, lastCall, raf, lastOp, invoked,
          thrown, returned, history, calibrated, nEvents, quietTicks>>

----------------------------------------------------------------------------
(* Bounds of the exploration *)

MaxEvents == 1

\* native changes and events in a specification that follows one group
MaxBurst == 2
MaxCallbacks == 2
MaxElapsed == 110
HistoryLen == 3
StartTime == 1000

(* Program constants *)

BufferLimit == 5
ResizeDelay == 110
MouseDelay == 75

(* Input domains *)

ScrollVals == {0, 100}
ScreenVals == {0, 10}
Widths == {800, 1024}
Heights == {600, 768}
DocHeights == {2000, 3000}
MouseVals == {0, 10}
Orientations == {<<0, 0, 0>>, <<30, 0, 0>>, <<30, 30, 10>>}
ClockSteps == {75, 110}
\* steps that reach times just below and exactly at both throttle delays
FineSteps == {35, 75}

(* Callbacks handed to watch/unwatch: f and g return normally, thrower     *)
(* throws when it is called; notAFunction is a value that is not callable. *)
Functions == {"f", "g", "thrower"}
NonFunctions == {"notAFunction"}
\* a subscriber that invokes the tick routine when it is called
Reentrant == {"reenterer"}
IsFunction(v) ==
  v \in Functions \cup Reentrant \cup {"watcher", "unwatcher", "misuser"}
Reenters(cb) == cb \in Reentrant
Throws(cb) == cb = "thrower"
\* subscribers that call the registry when they are called: watcher calls
\* watch(g, false), unwatcher calls unwatch(g), and misuser calls
\* unwatch(notAFunction) and does not catch what that raises
Registrars == {"watcher", "unwatcher", "misuser"}

----------------------------------------------------------------------------
(* JavaScript values *)

Undefined == <<>>
Num(n) == <<n>>

\* v != n, where v may be undefined (undefined != 0 is true)
LooseNotEqual(v, n) == v = Undefined \/ v[1] # n

\* !v
Falsy(v) == v = Undefined \/ v[1] = 0

\* Math.floor(v) || 0
FloorOrZero(v) == IF v = Undefined THEN 0 ELSE v[1]

\* Math.floor(last - initial) || 0
RelativeOrZero(last, initial) ==
  IF initial = Undefined THEN 0 ELSE last - initial[1]

RECURSIVE Sum(_)
Sum(arr) == IF arr = <<>> THEN 0 ELSE Head(arr) + Sum(Tail(arr))

getMean(arr) == Sum(arr) \div Len(arr)

----------------------------------------------------------------------------
(* The state after construction *)

InitTornis ==
  [ lastX |-> 0, lastY |-> 0,
    lastWidth |-> 800, lastHeight |-> 600,
    lastMouseX |-> 0, lastMouseY |-> 0,
    lastWindowX |-> 0, lastWindowY |-> 0,
    lastAlpha |-> 0, lastBeta |-> 0, lastGamma |-> 0,
    currAlpha |-> 0, currBeta |-> 0, currGamma |-> 0,
    scrollHeight |-> 2000,
    scrollChange |-> FALSE, sizeChange |-> FALSE, mouseChange |-> FALSE,
    positionChange |-> FALSE, orientationChange |-> FALSE,
    currWidth |-> 800, currHeight |-> 600,
    currMouseX |-> 0, currMouseY |-> 0,
    mouseXVelocity |-> <<>>, mouseYVelocity |-> <<>>,
    lastMouseXVelocity |-> 0, lastMouseYVelocity |-> 0,
    windowXVelocity |-> <<>>, windowYVelocity |-> <<>>,
    lastWindowXVelocity |-> 0, lastWindowYVelocity |-> 0,
    updating |-> FALSE,
    callbacks |-> <<>>,
    scrollXVelocity |-> Undefined, scrollYVelocity |-> Undefined,
    initialAlpha |-> Undefined, initialBeta |-> Undefined,
    initialGamma |-> Undefined ]

NoOp == [op |-> "constructor", cb |-> "", callOnWatch |-> FALSE]

Init ==
  /\ tornis = InitTornis
  /\ window = [pageXOffset |-> 0, pageYOffset |-> 0, screenX |-> 0, screenY |-> 0,
               innerWidth |-> 800, innerHeight |-> 600]
  /\ document = [scrollHeight |-> 2000]
  /\ now = StartTime
  /\ lastCall = [resize |-> 0, mouse |-> 0]
  /\ raf = 1
  /\ lastOp = NoOp
  /\ invoked = <<>>
  /\ thrown = "none"
  /\ returned = <<>>
  /\ history = <<>>
  /\ calibrated = FALSE
  /\ nEvents = 0
  /\ quietTicks = 0

----------------------------------------------------------------------------
(* formatData: the public snapshot of the store *)

formatData(t) ==
  [ scroll |->
      [ changed |-> t.scrollChange,
        left |-> t.lastX,
        right |-> t.lastX + t.lastWidth,
        top |-> t.lastY,
        bottom |-> t.lastY + t.lastHeight,
        velocity |-> [ x |-> FloorOrZero(t.scrollXVelocity),
                       y |-> FloorOrZero(t.scrollYVelocity) ] ],
    size |->
      [ changed |-> t.sizeChange,
        x |-> t.lastWidth,
        y |-> t.lastHeight,
        docY |-> t.scrollHeight ],
    mouse |->
      [ changed |-> t.mouseChange,
        x |-> t.lastMouseX,
        y |-> t.lastMouseY,
        velocity |-> [ x |-> t.lastMouseXVelocity,
                       y |-> t.lastMouseYVelocity ] ],
    position |->
      [ changed |-> t.positionChange,
        left |-> t.lastWindowX,
        right |-> t.lastWindowX + t.lastWidth,
        top |-> t.lastWindowY,
        bottom |-> t.lastWindowY + t.lastHeight,
        velocity |-> [ x |-> t.lastWindowXVelocity,
                       y |-> t.lastWindowYVelocity ] ],
    orientation |->
      [ changed |-> t.orientationChange,
        alpha |-> RelativeOrZero(t.lastAlpha, t.initialAlpha),
        beta |-> RelativeOrZero(t.lastBeta, t.initialBeta),
        gamma |-> RelativeOrZero(t.lastGamma, t.initialGamma) ] ]

\* firstRunData without the simulated changes
firstRunData_Unforced(t) == formatData(t)

\* the copy of the store that watch hands to the callback on subscribe
firstRunData(t) ==
  LET d == formatData(t) IN
  [d EXCEPT !.scroll.changed = TRUE, !.mouse.changed = TRUE,
            !.size.changed = TRUE, !.position.changed = TRUE,
            !.orientation.changed = TRUE]

----------------------------------------------------------------------------
(* update: one pass of the requestAnimationFrame loop, block by block *)

\* a buffer that keeps one delta more before it drops the oldest
pushVelocity_Longer(buf, delta) ==
  (IF Len(buf) > BufferLimit + 1 THEN Tail(buf) ELSE buf) \o <<delta>>

\* if (buf.length > 5) { buf.shift(); }  buf.push(delta);
pushVelocity(buf, delta) ==
  (IF Len(buf) > BufferLimit THEN Tail(buf) ELSE buf) \o <<delta>>

\* resetFlags that leaves the flags of the previous tick standing
resetFlags_Stale(t) == t

resetFlags(t) ==
  [t EXCEPT !.scrollChange = FALSE, !.sizeChange = FALSE,
            !.mouseChange = FALSE, !.positionChange = FALSE,
            !.orientationChange = FALSE]

updateWindowX(t, win) ==
  LET t1 == [t EXCEPT !.windowXVelocity =
                        pushVelocity(@, win.screenX - t.lastWindowX)]
      t2 == IF getMean(t1.windowXVelocity) # t1.lastWindowXVelocity
            THEN [t1 EXCEPT !.lastWindowXVelocity = getMean(t1.windowXVelocity),
                            !.positionChange = TRUE]
            ELSE t1
  IN IF win.screenX # t2.lastWindowX
     THEN [t2 EXCEPT !.positionChange = TRUE, !.lastWindowX = win.screenX]
     ELSE t2

\* updateWindowY that stores the mean of the buffer as it stood before the
\* push
updateWindowY_StaleMean(t, win) ==
  LET t1 == [t EXCEPT !.windowYVelocity =
                        pushVelocity(@, win.screenY - t.lastWindowY)]
      t2 == IF t.windowYVelocity # <<>>
               /\ getMean(t.windowYVelocity) # t1.lastWindowYVelocity
            THEN [t1 EXCEPT !.lastWindowYVelocity = getMean(t.windowYVelocity),
                            !.positionChange = TRUE]
            ELSE t1
  IN IF win.screenY # t2.lastWindowY
     THEN [t2 EXCEPT !.positionChange = TRUE, !.lastWindowY = win.screenY]
     ELSE t2

updateWindowY(t, win) ==
  LET t1 == [t EXCEPT !.windowYVelocity =
                        pushVelocity(@, win.screenY - t.lastWindowY)]
      t2 == IF getMean(t1.windowYVelocity) # t1.lastWindowYVelocity
            THEN [t1 EXCEPT !.lastWindowYVelocity = getMean(t1.windowYVelocity),
                            !.positionChange = TRUE]
            ELSE t1
  IN IF win.screenY # t2.lastWindowY
     THEN [t2 EXCEPT !.positionChange = TRUE, !.lastWindowY = win.screenY]
     ELSE t2

\* updateScroll without the two blocks that reset the velocity
updateScroll_NoReset(t, win) ==
  LET t3 == IF win.pageXOffset # t.lastX
            THEN [t EXCEPT !.scrollChange = TRUE,
                           !.scrollXVelocity = Num(win.pageXOffset - t.lastX),
                           !.lastX = win.pageXOffset]
            ELSE t
  IN IF win.pageYOffset # t3.lastY
     THEN [t3 EXCEPT !.scrollChange = TRUE,
                     !.scrollYVelocity = Num(win.pageYOffset - t3.lastY),
                     !.lastY = win.pageYOffset]
     ELSE t3

updateScroll(t, win) ==
  LET \* reset scroll X velocity
      t1 == IF win.pageXOffset = t.lastX /\ LooseNotEqual(t.scrollXVelocity, 0)
            THEN [t EXCEPT !.scrollXVelocity = Num(0), !.scrollChange = TRUE]
            ELSE t
      \* reset scroll Y velocity
      t2 == IF win.pageYOffset = t1.lastY /\ LooseNotEqual(t1.scrollYVelocity, 0)
            THEN [t1 EXCEPT !.scrollYVelocity = Num(0), !.scrollChange = TRUE]
            ELSE t1
      \* check scroll X
      t3 == IF win.pageXOffset # t2.lastX
            THEN [t2 EXCEPT !.scrollChange = TRUE,
                            !.scrollXVelocity = Num(win.pageXOffset - t2.lastX),
                            !.lastX = win.pageXOffset]
            ELSE t2
  IN \* check scroll Y
     IF win.pageYOffset # t3.lastY
     THEN [t3 EXCEPT !.scrollChange = TRUE,
                     !.scrollYVelocity = Num(win.pageYOffset - t3.lastY),
                     !.lastY = win.pageYOffset]
     ELSE t3

\* currWidth and currHeight are the values update destructured on entry
updateSize(t, currWidth, currHeight, doc) ==
  LET t1 == IF currWidth # t.lastWidth
            THEN [t EXCEPT !.lastWidth = currWidth,
                           !.scrollHeight = doc.scrollHeight,
                           !.sizeChange = TRUE]
            ELSE t
  IN IF currHeight # t1.lastHeight
     THEN [t1 EXCEPT !.lastHeight = currHeight, !.sizeChange = TRUE]
     ELSE t1

updateMouseX(t, currMouseX) ==
  LET t1 == [t EXCEPT !.mouseXVelocity =
                        pushVelocity(@, currMouseX - t.lastMouseX)]
      t2 == IF getMean(t1.mouseXVelocity) # t1.lastMouseXVelocity
            THEN [t1 EXCEPT !.lastMouseXVelocity = getMean(t1.mouseXVelocity),
                            !.mouseChange = TRUE]
            ELSE t1
  IN IF currMouseX # t2.lastMouseX
     THEN [t2 EXCEPT !.lastMouseX = currMouseX, !.mouseChange = TRUE]
     ELSE t2

updateMouseY(t, currMouseY) ==
  LET t1 == [t EXCEPT !.mouseYVelocity =
                        pushVelocity(@, currMouseY - t.lastMouseY)]
      t2 == IF getMean(t1.mouseYVelocity) # t1.lastMouseYVelocity
            THEN [t1 EXCEPT !.lastMouseYVelocity = getMean(t1.mouseYVelocity),
                            !.mouseChange = TRUE]
            ELSE t1
  IN IF currMouseY # t2.lastMouseY \/ getMean(t2.mouseYVelocity) # 0
     THEN [t2 EXCEPT !.lastMouseY = currMouseY, !.mouseChange = TRUE]
     ELSE t2

updateOrientation(t, currAlpha, currBeta, currGamma) ==
  LET t1 == IF currAlpha # t.lastAlpha
            THEN [t EXCEPT !.lastAlpha = currAlpha, !.orientationChange = TRUE]
            ELSE t
      t2 == IF currBeta # t1.lastBeta
            THEN [t1 EXCEPT !.lastBeta = currBeta, !.orientationChange = TRUE]
            ELSE t1
  IN IF currGamma # t2.lastGamma
     THEN [t2 EXCEPT !.lastGamma = currGamma, !.orientationChange = TRUE]
     ELSE t2

\* the store after the reconciliation part of update (lines 381-503)
reconcile(t, win, doc) ==
  LET a == resetFlags(t)
      b == updateWindowX(a, win)
      c == updateWindowY(b, win)
      d == updateScroll(c, win)
      e == updateSize(d, t.currWidth, t.currHeight, doc)
      f == updateMouseX(e, t.currMouseX)
      g == updateMouseY(f, t.currMouseY)
  IN updateOrientation(g, t.currAlpha, t.currBeta, t.currGamma)

anyChange(t) ==
  \/ t.scrollChange
  \/ t.sizeChange
  \/ t.mouseChange
  \/ t.positionChange
  \/ t.orientationChange

----------------------------------------------------------------------------
(* Calls into subscribers.  A run of engine code that may call subscribers *)
(* is threaded through a record st: the store t, the calls made so far     *)
(* (log), the error that ended the run (thrown, "none" while running) and  *)
(* the number of snapshot objects the run has built (built).  A snapshot   *)
(* object is identified by its ordinal among the objects of the run.       *)
(* frames counts the calls of requestAnimationFrame the run has made.      *)

Running(t) ==
  [t |-> t, log |-> <<>>, thrown |-> "none", built |-> 0, frames |-> 0]

RECURSIVE update(_), forEach(_, _, _), call(_, _, _)
RECURSIVE watch(_, _, _), unwatch(_, _)

\* formatData that hands out again the object it built before
snapshot_Reused(st) ==
  [st EXCEPT !.built = IF @ = 0 THEN 1 ELSE @]

\* this.formatData() returns a new object literal: one more object exists,
\* and it is the one the next call passes on
snapshot(st) ==
  [st EXCEPT !.built = @ + 1]

\* cb(data), data being the object built last: the call is made; an
\* exception leaves it when cb throws, a subscriber that invokes the tick
\* routine runs update before it returns, and a subscriber that calls the
\* registry runs watch or unwatch, whose exception leaves the call too
call(cb, data, st) ==
  LET s1 == [st EXCEPT !.log = Append(@, [cb |-> cb, data |-> data,
                                          obj |-> st.built])]
  IN IF Throws(cb) THEN [s1 EXCEPT !.thrown = "CallbackError"]
     ELSE IF Reenters(cb) THEN update(s1)
     ELSE IF cb = "watcher" THEN watch(s1, "g", FALSE)
     ELSE IF cb = "unwatcher" THEN unwatch(s1, "g")
     ELSE IF cb = "misuser" THEN unwatch(s1, "notAFunction")
     ELSE s1

\* this.callbacks.forEach(cb => cb(this.formatData())), from index i on.
\* forEach walks the array it was called on, up to the length it had then;
\* an exception thrown by a callback ends the walk.
forEach(arr, i, st) ==
  IF i > Len(arr) THEN st
  ELSE LET s == snapshot(st)
           r == call(arr[i], formatData(s.t), s)
       IN IF r.thrown # "none" THEN r ELSE forEach(arr, i + 1, r)

\* this.updating = false; requestAnimationFrame(this.update); an exception
\* of a subscriber has left update before these statements
reschedule(st) ==
  IF st.thrown # "none" THEN st
  ELSE [st EXCEPT !.t.updating = FALSE, !.frames = @ + 1]

\* the end of update(): the subscribers are called when a group changed,
\* then the loop is rescheduled
dispatch(st) ==
  reschedule(IF anyChange(st.t) THEN forEach(st.t.callbacks, 1, st) ELSE st)

\* the body of update(): return when the flag is up (nothing in the code
\* raises it), otherwise reconcile the store with the natives and dispatch
update(st) ==
  IF st.t.updating THEN st
  ELSE dispatch([st EXCEPT !.t = reconcile(st.t, window, document)])

\* watch that registers the value before it validates it
watch_PushFirst(st, callback, callOnWatch) ==
  LET s0 == [st EXCEPT !.t.callbacks = Append(@, callback)]
  IN IF ~IsFunction(callback) THEN [s0 EXCEPT !.thrown = "NotAFunction"]
     ELSE IF callOnWatch
          THEN call(callback, firstRunData(s0.t), snapshot(s0))
          ELSE s0

watch(st, callback, callOnWatch) ==
  IF ~IsFunction(callback) THEN [st EXCEPT !.thrown = "NotAFunction"]
  ELSE LET s1 == IF callOnWatch
                 THEN call(callback, firstRunData(st.t), snapshot(st))
                 ELSE st
       IN IF s1.thrown # "none" THEN s1
          ELSE [s1 EXCEPT !.t.callbacks = Append(@, callback)]

RECURSIVE RemoveFirst(_, _)
RemoveFirst(list, x) ==
  IF list = <<>> THEN <<>>
  ELSE IF Head(list) = x THEN Tail(list)
       ELSE <<Head(list)>> \o RemoveFirst(Tail(list), x)

\* unwatch that removes one occurrence only
unwatch_FirstOnly(st, callback) ==
  IF ~IsFunction(callback) THEN [st EXCEPT !.thrown = "NotAFunction"]
  ELSE [st EXCEPT !.t.callbacks = RemoveFirst(@, callback)]

unwatch(st, callback) ==
  IF ~IsFunction(callback) THEN [st EXCEPT !.thrown = "NotAFunction"]
  ELSE [st EXCEPT !.t.callbacks = SelectSeq(@, LAMBDA cb : cb # callback)]

recalibrateOrientation(t) ==
  LET prev == [alpha |-> t.initialAlpha, beta |-> t.initialBeta,
               gamma |-> t.initialGamma]
      t1 == [t EXCEPT !.initialAlpha = Num(t.lastAlpha),
                      !.initialBeta = Num(t.lastBeta),
                      !.initialGamma = Num(t.lastGamma)]
  IN [t |-> t1,
      calibration |->
        [prev |-> prev,
         current |-> [alpha |-> t1.initialAlpha, beta |-> t1.initialBeta,
                      gamma |-> t1.initialGamma]]]

handleResize(t, win) ==
  [t EXCEPT !.currWidth = win.innerWidth, !.currHeight = win.innerHeight]

\* handleMouse that records the position as the last-known one
handleMouse_WritesLast(t, e) ==
  [t EXCEPT !.currMouseX = e.clientX, !.currMouseY = e.clientY,
            !.lastMouseX = e.clientX, !.lastMouseY = e.clientY]

handleMouse(t, e) ==
  [t EXCEPT !.currMouseX = e.clientX, !.currMouseY = e.clientY]

handleOrientation(t, e) ==
  LET t1 == IF Falsy(t.initialAlpha) THEN [t EXCEPT !.initialAlpha = Num(e.alpha)] ELSE t
      t2 == IF Falsy(t1.initialBeta) THEN [t1 EXCEPT !.initialBeta = Num(e.beta)] ELSE t1
      t3 == IF Falsy(t2.initialGamma) THEN [t2 EXCEPT !.initialGamma = Num(e.gamma)] ELSE t2
  IN [t3 EXCEPT !.currAlpha = e.alpha, !.currBeta = e.beta, !.currGamma = e.gamma]

\* the wrapper returned by throttled(delay, fn) runs fn unless
\* now - lastCall < delay
\* a wrapper that also drops the call made exactly delay ms after the
\* last one that ran
throttledRuns_Inclusive(delay, last) == ~(now - last <= delay)

throttledRuns(delay, last) == ~(now - last < delay)

----------------------------------------------------------------------------
(* Steps *)

Op(name, cb, flag) == [op |-> name, cb |-> cb, callOnWatch |-> flag]

\* a step that calls no subscriber, raises nothing and returns nothing
Silent(name) ==
  /\ lastOp' = Op(name, "", FALSE)
  /\ invoked' = <<>>
  /\ thrown' = "none"
  /\ returned' = <<>>

Remember(h, entry) ==
  LET all == Append(h, entry)
  IN IF Len(all) > HistoryLen THEN Tail(all) ELSE all

\* no native value differs from the value the store last recorded
NativeUnchanged ==
  /\ window.pageXOffset = tornis.lastX
  /\ window.pageYOffset = tornis.lastY
  /\ window.screenX = tornis.lastWindowX
  /\ window.screenY = tornis.lastWindowY
  /\ tornis.currWidth = tornis.lastWidth
  /\ tornis.currHeight = tornis.lastHeight
  /\ tornis.currMouseX = tornis.lastMouseX
  /\ tornis.currMouseY = tornis.lastMouseY
  /\ tornis.currAlpha = tornis.lastAlpha
  /\ tornis.currBeta = tornis.lastBeta
  /\ tornis.currGamma = tornis.lastGamma

\* the ticks counted are those that decide how far the store has settled
SettleTicks == BufferLimit + 2

\* requestAnimationFrame runs a pending update
Update ==
  /\ raf > 0
  /\ lastOp' = Op("update", "", FALSE)
  /\ returned' = <<>>
  /\ UNCHANGED <<window, document, now, lastCall, nEvents>>
  /\ LET st == update(Running(tornis))
     IN /\ tornis' = st.t
        /\ invoked' = st.log
        /\ thrown' = st.thrown
        \* the frame that ran is spent; the run requested st.frames more
        /\ raf' = raf - 1 + st.frames
  /\ IF tornis.updating
     THEN UNCHANGED <<history, calibrated>>
     ELSE LET r == reconcile(tornis, window, document)
          IN /\ history' = Remember(history,
                  [seen |-> [x |-> window.pageXOffset, y |-> window.pageYOffset],
                   moved |-> [x |-> window.pageXOffset - tornis.lastX,
                              y |-> window.pageYOffset - tornis.lastY],
                   scroll |-> formatData(r).scroll])
             /\ calibrated' = (calibrated /\ ~r.orientationChange)
  /\ quietTicks' = IF tornis.updating THEN quietTicks
                   ELSE IF ~NativeUnchanged THEN 0
                   ELSE IF quietTicks < SettleTicks THEN quietTicks + 1
                   ELSE quietTicks

Watch(callback, callOnWatch) ==
  /\ Len(tornis.callbacks) < MaxCallbacks
  /\ LET st == watch(Running(tornis), callback, callOnWatch)
     IN /\ tornis' = st.t
        /\ invoked' = st.log
        /\ thrown' = st.thrown
  /\ lastOp' = Op("watch", callback, callOnWatch)
  /\ returned' = <<>>
  /\ UNCHANGED <<window, document, now, lastCall, raf, history, quietTicks, calibrated, nEvents>>

Unwatch(callback) ==
  /\ LET st == unwatch(Running(tornis), callback)
     IN /\ tornis' = st.t
        /\ invoked' = st.log
        /\ thrown' = st.thrown
  /\ lastOp' = Op("unwatch", callback, FALSE)
  /\ returned' = <<>>
  /\ UNCHANGED <<window, document, now, lastCall, raf, history, quietTicks, calibrated, nEvents>>

GetViewportState ==
  /\ returned' = <<formatData(tornis)>>
  /\ lastOp' = Op("getViewportState", "", FALSE)
  /\ invoked' = <<>>
  /\ thrown' = "none"
  /\ UNCHANGED <<tornis, window, document, now, lastCall, raf, history, quietTicks, calibrated, nEvents>>

RecalibrateOrientation ==
  /\ LET r == recalibrateOrientation(tornis)
     IN /\ tornis' = r.t
        /\ returned' = <<r.calibration>>
  /\ calibrated' = TRUE
  /\ lastOp' = Op("recalibrateOrientation", "", FALSE)
  /\ invoked' = <<>>
  /\ thrown' = "none"
  /\ UNCHANGED <<window, document, now, lastCall, raf, history, quietTicks, nEvents>>

\* the page is scrolled to (x, y)
Scroll(x, y) ==
  /\ <<x, y>> # <<window.pageXOffset, window.pageYOffset>>
  /\ window' = [window EXCEPT !.pageXOffset = x, !.pageYOffset = y]
  /\ nEvents' = nEvents + 1
  /\ Silent("scroll")
  /\ UNCHANGED <<tornis, document, now, lastCall, raf, history, quietTicks, calibrated>>

\* the browser window is moved to (x, y) on the screen
MoveWindow(x, y) ==
  /\ <<x, y>> # <<window.screenX, window.screenY>>
  /\ window' = [window EXCEPT !.screenX = x, !.screenY = y]
  /\ nEvents' = nEvents + 1
  /\ Silent("move")
  /\ UNCHANGED <<tornis, document, now, lastCall, raf, history, quietTicks, calibrated>>

\* the content reflows: the document height becomes h
Reflow(h) ==
  /\ h # document.scrollHeight
  /\ document' = [document EXCEPT !.scrollHeight = h]
  /\ nEvents' = nEvents + 1
  /\ Silent("reflow")
  /\ UNCHANGED <<tornis, window, now, lastCall, raf, history, quietTicks, calibrated>>

\* the window is resized to w x h and the resize listener is called
Resize(w, h) ==
  /\ <<w, h>> # <<window.innerWidth, window.innerHeight>>
  /\ window' = [window EXCEPT !.innerWidth = w, !.innerHeight = h]
  /\ nEvents' = nEvents + 1
  /\ IF throttledRuns(ResizeDelay, lastCall.resize)
     THEN /\ lastCall' = [lastCall EXCEPT !.resize = now]
          /\ tornis' = handleResize(tornis, window')
     ELSE UNCHANGED <<lastCall, tornis>>
  /\ Silent("resize")
  /\ UNCHANGED <<document, now, raf, history, quietTicks, calibrated>>

\* the mouse moves to (x, y) and the mousemove listener is called
MouseMove(x, y) ==
  /\ nEvents' = nEvents + 1
  /\ IF throttledRuns(MouseDelay, lastCall.mouse)
     THEN /\ lastCall' = [lastCall EXCEPT !.mouse = now]
          /\ tornis' = handleMouse(tornis, [clientX |-> x, clientY |-> y])
     ELSE UNCHANGED <<lastCall, tornis>>
  /\ Silent("mousemove")
  /\ UNCHANGED <<window, document, now, raf, history, quietTicks, calibrated>>

\* the device reports an orientation and the listener is called
DeviceOrientation(a, b, c) ==
  /\ nEvents' = nEvents + 1
  /\ tornis' = handleOrientation(tornis, [alpha |-> a, beta |-> b, gamma |-> c])
  /\ Silent("deviceorientation")
  /\ UNCHANGED <<window, document, now, lastCall, raf, history, quietTicks, calibrated>>

\* time passes
AdvanceClock(d) ==
  /\ now + d <= StartTime + MaxElapsed
  /\ now' = now + d
  /\ Silent("clock")
  /\ UNCHANGED <<tornis, window, document, lastCall, raf, history, quietTicks, calibrated, nEvents>>

\* polled natives change
Natives ==
  /\ nEvents < MaxEvents
  /\ \/ \E x \in ScrollVals, y \in ScrollVals : Scroll(x, y)
     \/ \E x \in ScreenVals, y \in ScreenVals : MoveWindow(x, y)
     \/ \E h \in DocHeights : Reflow(h)

\* the window dispatches an event to its listener
Events ==
  /\ nEvents < MaxEvents
  /\ \/ \E w \in Widths, h \in Heights : Resize(w, h)
     \/ \E x \in MouseVals, y \in MouseVals : MouseMove(x, y)
     \/ \E r \in Orientations : DeviceOrientation(r[1], r[2], r[3])

\* the whole program in its environment
Next ==
  \/ Update
  \/ \E cb \in Functions \cup NonFunctions, flag \in BOOLEAN : Watch(cb, flag)
  \/ \E cb \in Functions \cup NonFunctions : Unwatch(cb)
  \/ GetViewportState
  \/ RecalibrateOrientation
  \/ Natives
  \/ Events
  \/ \E d \in ClockSteps : AdvanceClock(d)

Spec == Init /\ [][Next]_vars

\* the engine without subscribers: the update loop, recalibration, and the
\* environment with a clock that moves in steps of the longer throttle delay
NextEngine ==
  \/ Update
  \/ RecalibrateOrientation
  \/ Natives
  \/ Events
  \/ AdvanceClock(ResizeDelay)

SpecEngine == Init /\ [][NextEngine]_vars

\* the subscription registry: the update loop, the public operations on
\* subscribers, and scrolling as the source of change
NextRegistry ==
  \/ Update
  \/ \E cb \in Functions \cup NonFunctions, flag \in BOOLEAN : Watch(cb, flag)
  \/ \E cb \in Functions \cup NonFunctions : Unwatch(cb)
  \/ /\ nEvents < MaxEvents
     /\ \E x \in ScrollVals, y \in ScrollVals : Scroll(x, y)

SpecRegistry == Init /\ [][NextRegistry]_vars

\* the engine with a subscriber that returns normally, in an environment
\* where no time passes
NextSubscribed ==
  \/ Update
  \/ Watch("f", FALSE)
  \/ Natives
  \/ Events

SpecSubscribed == Init /\ [][NextSubscribed]_vars

\* the size group: the update loop, resizes of the window and reflows of
\* the document, a burst of them
NextSize ==
  \/ Update
  \/ /\ nEvents < MaxBurst
     /\ \/ \E w \in Widths, h \in Heights : Resize(w, h)
        \/ \E h \in DocHeights : Reflow(h)

SpecSize == Init /\ [][NextSize]_vars

\* the orientation group: the update loop, recalibration, and a burst of
\* readings of the device; no other event occurs
NextOrientation ==
  \/ Update
  \/ RecalibrateOrientation
  \/ /\ nEvents < MaxBurst
     /\ \E r \in Orientations : DeviceOrientation(r[1], r[2], r[3])

SpecOrientation == Init /\ [][NextOrientation]_vars

\* the throttled listeners between two animation frames: a burst of resize
\* and mousemove events, and a clock that moves in fine steps
NextThrottle ==
  \/ /\ nEvents < MaxBurst
     /\ \/ \E w \in Widths, h \in Heights : Resize(w, h)
        \/ \E x \in MouseVals, y \in MouseVals : MouseMove(x, y)
  \/ \E d \in FineSteps : AdvanceClock(d)

SpecThrottle == Init /\ [][NextThrottle]_vars

\* subscribers that invoke the tick routine from inside the dispatch: the
\* update loop, registration of such a subscriber and of a plain one, and
\* scrolling as the source of change
NextReentrant ==
  \/ Update
  \/ \E cb \in Reentrant \cup {"f"} : Watch(cb, FALSE)
  \/ /\ nEvents < MaxBurst
     /\ \E x \in ScrollVals, y \in ScrollVals : Scroll(x, y)

SpecReentrant == Init /\ [][NextReentrant]_vars

\* subscribers that change the registry from inside the dispatch: the
\* update loop, registration of such subscribers and of the function they
\* watch and unwatch, and scrolling as the source of change
NextDispatch ==
  \/ Update
  \/ \E cb \in Registrars \cup {"g"} : Watch(cb, FALSE)
  \/ /\ nEvents < MaxBurst
     /\ \E x \in ScrollVals, y \in ScrollVals : Scroll(x, y)

SpecDispatch == Init /\ [][NextDispatch]_vars

----------------------------------------------------------------------------
(* Properties *)

AllZero(buf) == \A i \in DOMAIN buf : buf[i] = 0

\* no velocity is left to decay: the scroll velocities are 0 and the rolling
\* buffers hold only zeros
VelocitiesSettled ==
  /\ tornis.scrollXVelocity = Num(0)
  /\ tornis.scrollYVelocity = Num(0)
  /\ AllZero(tornis.mouseXVelocity)
  /\ AllZero(tornis.mouseYVelocity)
  /\ AllZero(tornis.windowXVelocity)
  /\ AllZero(tornis.windowYVelocity)

\* the callbacks called by the most recent step, in order
InvokedCallbacks(calls) == [i \in DOMAIN calls |-> calls[i].cb]

\* C1 as stated: a tick that finds no native value changed invokes no
\* subscriber.
C1_NoNativeChangeNoCall ==
  [][(NativeUnchanged /\ lastOp'.op = "update") => invoked' = <<>>]_vars

\* C1 amended: a tick that finds no native value changed invokes no subscriber
\* once the velocities have settled (scroll velocities 0, rolling buffers all
\* zeros); before that, ticks without a native change do call subscribers.
C1_SettledNoCall ==
  [][(NativeUnchanged /\ VelocitiesSettled /\ lastOp'.op = "update")
       => invoked' = <<>>]_vars

\* a tick after a native change has settled, with a subscriber registered,
\* called nobody
C1_Witness ==
  /\ lastOp.op = "update"
  /\ tornis.callbacks # <<>>
  /\ invoked = <<>>
  /\ nEvents > 0
  /\ NativeUnchanged
  /\ VelocitiesSettled

AllChanged(data) ==
  /\ data.scroll.changed
  /\ data.size.changed
  /\ data.mouse.changed
  /\ data.position.changed
  /\ data.orientation.changed

\* C2: watch(cb, true) with a function cb calls cb exactly once, with a
\* snapshot whose five changed flags are all true and whose other fields are
\* those of the store, whatever the store's own flags; watch(cb, false)
\* calls nothing.
C2_WatchCallsOnce ==
  [][(lastOp'.op = "watch" /\ IsFunction(lastOp'.cb)) =>
       IF lastOp'.callOnWatch
       THEN /\ Len(invoked') = 1
            /\ invoked'[1].cb = lastOp'.cb
            /\ AllChanged(invoked'[1].data)
            /\ invoked'[1].data.scroll.top = tornis.lastY
            /\ invoked'[1].data.size.x = tornis.lastWidth
       ELSE invoked' = <<>>]_vars

\* watch(cb, true) has just called cb while the store's own flags were mixed
C2_Witness ==
  /\ lastOp.op = "watch"
  /\ lastOp.callOnWatch
  /\ Len(invoked) = 1
  /\ tornis.scrollChange
  /\ ~tornis.sizeChange

RECURSIVE RemoveAll(_, _)
RemoveAll(list, x) ==
  IF list = <<>> THEN <<>>
  ELSE IF Head(list) = x THEN RemoveAll(Tail(list), x)
       ELSE <<Head(list)>> \o RemoveAll(Tail(list), x)

Occurs(list, x) == \E i \in DOMAIN list : list[i] = x

\* C3: unwatch(cb) with a function cb leaves the list without any occurrence
\* of cb, the others in their order, raises nothing, and leaves the list as
\* it was when cb was not registered; a tick calls only callbacks that are in
\* the list when it starts.
C3_UnwatchRemovesAll ==
  [][/\ (lastOp'.op = "unwatch" /\ IsFunction(lastOp'.cb)) =>
          /\ tornis'.callbacks = RemoveAll(tornis.callbacks, lastOp'.cb)
          /\ ~Occurs(tornis'.callbacks, lastOp'.cb)
          /\ (~Occurs(tornis.callbacks, lastOp'.cb) =>
                tornis'.callbacks = tornis.callbacks)
          /\ thrown' = "none"
          /\ invoked' = <<>>
     /\ lastOp'.op = "update" =>
          \A i \in DOMAIN invoked' : Occurs(tornis.callbacks, invoked'[i].cb)
    ]_vars

\* unwatch has removed a callback and kept another one
C3_Witness ==
  /\ lastOp.op = "unwatch"
  /\ IsFunction(lastOp.cb)
  /\ thrown = "none"
  /\ tornis.callbacks # <<>>

\* C4: watch and unwatch of a value that is not a function raise an error,
\* call nothing and leave the subscriber list and the rest of the state as
\* they were.
C4_NotAFunctionRejected ==
  [][(lastOp'.op \in {"watch", "unwatch"} /\ ~IsFunction(lastOp'.cb)) =>
       /\ thrown' = "NotAFunction"
       /\ invoked' = <<>>
       /\ UNCHANGED <<tornis, window, document, now, lastCall, raf, history,
                      calibrated, nEvents>>]_vars

\* a non-function was rejected while subscribers were registered
C4_Witness ==
  /\ lastOp.op \in {"watch", "unwatch"}
  /\ ~IsFunction(lastOp.cb)
  /\ thrown = "NotAFunction"
  /\ tornis.callbacks # <<>>

\* C5 as stated: when a subscriber throws during a tick's dispatch, every
\* subscriber registered after it is still called in that tick.
C5_FailureIsolated ==
  [][lastOp'.op = "update" =>
       \A i \in DOMAIN invoked' :
         Throws(invoked'[i].cb) =>
           \A j \in (i + 1)..Len(tornis.callbacks) :
             /\ j \in DOMAIN invoked'
             /\ invoked'[j].cb = tornis.callbacks[j]]_vars

\* the velocity a tick computes for a rolling buffer
NewVelocity(buf, delta) == getMean(pushVelocity(buf, delta))

PositionDiffers ==
  \/ window.screenX # tornis.lastWindowX
  \/ window.screenY # tornis.lastWindowY
  \/ NewVelocity(tornis.windowXVelocity, window.screenX - tornis.lastWindowX)
       # tornis.lastWindowXVelocity
  \/ NewVelocity(tornis.windowYVelocity, window.screenY - tornis.lastWindowY)
       # tornis.lastWindowYVelocity

ScrollDiffers ==
  \/ window.pageXOffset # tornis.lastX
  \/ window.pageYOffset # tornis.lastY
  \/ Num(window.pageXOffset - tornis.lastX) # tornis.scrollXVelocity
  \/ Num(window.pageYOffset - tornis.lastY) # tornis.scrollYVelocity

SizeDiffers ==
  \/ tornis.currWidth # tornis.lastWidth
  \/ tornis.currHeight # tornis.lastHeight

MouseDiffers ==
  \/ tornis.currMouseX # tornis.lastMouseX
  \/ tornis.currMouseY # tornis.lastMouseY
  \/ NewVelocity(tornis.mouseXVelocity, tornis.currMouseX - tornis.lastMouseX)
       # tornis.lastMouseXVelocity
  \/ NewVelocity(tornis.mouseYVelocity, tornis.currMouseY - tornis.lastMouseY)
       # tornis.lastMouseYVelocity

OrientationDiffers ==
  \/ tornis.currAlpha # tornis.lastAlpha
  \/ tornis.currBeta # tornis.lastBeta
  \/ tornis.currGamma # tornis.lastGamma

\* C6 as stated: at the end of every tick each group's changed flag is true
\* exactly when one of the group's primary values differed from its
\* last-known value or its newly computed velocity differed from the stored
\* one.
C6_ChangedIffDiffers ==
  [][lastOp'.op = "update" =>
       /\ tornis'.positionChange <=> PositionDiffers
       /\ tornis'.scrollChange <=> ScrollDiffers
       /\ tornis'.sizeChange <=> SizeDiffers
       /\ tornis'.mouseChange <=> MouseDiffers
       /\ tornis'.orientationChange <=> OrientationDiffers]_vars

\* C6 for the four groups other than the mouse
C6_OtherGroups ==
  [][lastOp'.op = "update" =>
       /\ tornis'.positionChange <=> PositionDiffers
       /\ tornis'.scrollChange <=> ScrollDiffers
       /\ tornis'.sizeChange <=> SizeDiffers
       /\ tornis'.orientationChange <=> OrientationDiffers]_vars

\* C7 as stated: a tick calls subscribers exactly when a changed flag is set
\* after reconciliation, and then calls every registered callback once per
\* registration, in registration order.
C7_DispatchIffChanged ==
  [][lastOp'.op = "update" =>
       IF anyChange(tornis')
       THEN InvokedCallbacks(invoked') = tornis.callbacks
       ELSE invoked' = <<>>]_vars

\* C8 as stated: no rolling velocity buffer ever holds more than 5 entries.
C8_BufferAtMostFive ==
  /\ Len(tornis.mouseXVelocity) <= 5
  /\ Len(tornis.mouseYVelocity) <= 5
  /\ Len(tornis.windowXVelocity) <= 5
  /\ Len(tornis.windowYVelocity) <= 5

\* what the ticks i, i+1, i+2 of the history report for a scroll of the axis
\* whose values the selectors pick
ScrollThenSettle(i, moved(_), offset(_), velocity(_), seen(_)) ==
  LET h1 == history[i] IN
  moved(h1) # 0 =>
    /\ h1.scroll.changed
    /\ offset(h1) = seen(h1)
    /\ velocity(h1) = moved(h1)
    /\ (i + 1 \in DOMAIN history /\ moved(history[i + 1]) = 0) =>
         /\ history[i + 1].scroll.changed
         /\ velocity(history[i + 1]) = 0
    /\ (/\ i + 2 \in DOMAIN history
        /\ history[i + 1].moved = [x |-> 0, y |-> 0]
        /\ history[i + 2].moved = [x |-> 0, y |-> 0]) =>
         ~history[i + 2].scroll.changed

OrientationOf(a, b, c) == [alpha |-> a, beta |-> b, gamma |-> c]

\* C10 as stated: recalibrateOrientation returns the baseline held before the
\* call and the new baseline, the new baseline is the last-known reading, and
\* from then on every snapshot reports alpha, beta and gamma as 0 until the
\* last-known reading changes.
C10_RecalibrateZeroes ==
  [][/\ lastOp'.op = "recalibrateOrientation" =>
          /\ returned'[1].prev = OrientationOf(tornis.initialAlpha,
                 tornis.initialBeta, tornis.initialGamma)
          /\ returned'[1].current = OrientationOf(Num(tornis.lastAlpha),
                 Num(tornis.lastBeta), Num(tornis.lastGamma))
          /\ returned'[1].current = OrientationOf(tornis'.initialAlpha,
                 tornis'.initialBeta, tornis'.initialGamma)
     /\ calibrated' =>
          /\ formatData(tornis').orientation.alpha = 0
          /\ formatData(tornis').orientation.beta = 0
          /\ formatData(tornis').orientation.gamma = 0
    ]_vars

----------------------------------------------------------------------------
(* C11: the velocity of a rolling axis is the floored mean of its buffer *)

FlooredMean(buf) == Sum(buf) \div Len(buf)

\* the stored and the reported velocity of an axis agree with its buffer
MeanReported(buf, stored, reported) ==
  /\ reported = stored
  /\ IF buf = <<>> THEN reported = 0 ELSE stored = FlooredMean(buf)

\* C11: in every state, so after every tick, the stored and reported
\* velocity of mouse X, mouse Y, window X and window Y is
\* floor(sum(buffer) / length(buffer)) of that axis's buffer as it stands,
\* and 0 while the buffer is still empty
C11_VelocityIsFlooredMean ==
  /\ MeanReported(tornis.mouseXVelocity, tornis.lastMouseXVelocity,
                  formatData(tornis).mouse.velocity.x)
  /\ MeanReported(tornis.mouseYVelocity, tornis.lastMouseYVelocity,
                  formatData(tornis).mouse.velocity.y)
  /\ MeanReported(tornis.windowXVelocity, tornis.lastWindowXVelocity,
                  formatData(tornis).position.velocity.x)
  /\ MeanReported(tornis.windowYVelocity, tornis.lastWindowYVelocity,
                  formatData(tornis).position.velocity.y)

\* a tick has left a buffer of several deltas whose floored mean is neither
\* zero nor the last delta
C11_Witness ==
  /\ lastOp.op = "update"
  /\ Len(tornis.windowYVelocity) > 1
  /\ tornis.lastWindowYVelocity # 0
  /\ tornis.lastWindowYVelocity
       # tornis.windowYVelocity[Len(tornis.windowYVelocity)]
  /\ tornis.lastWindowYVelocity = FlooredMean(tornis.windowYVelocity)

----------------------------------------------------------------------------
(* C12: the snapshots of one dispatch *)

----------------------------------------------------------------------------
(* C13: the update loop keeps itself going *)

\* C13: every tick, whatever it found and whatever its subscribers did,
\* ends with exactly one further tick scheduled
C13_OneTickScheduled ==
  [][lastOp'.op = "update" => raf' = 1]_vars

----------------------------------------------------------------------------
(* C14: watch registers every function it is given *)

\* C14: a call of watch with a function ends with that function appended
\* at the end of the subscriber list, whatever the flag and whatever the
\* immediate call of the function did, and also when the function is
\* registered already
C14_WatchAlwaysAppends ==
  [][(lastOp'.op = "watch" /\ IsFunction(lastOp'.cb)) =>
       tornis'.callbacks = Append(tornis.callbacks, lastOp'.cb)]_vars

----------------------------------------------------------------------------
(* C15: the document height is read again when the viewport is resized *)

\* C15: a tick that finds the captured width or the captured height
\* different from the last-known one reads the document height, so that
\* the snapshot after the tick reports the height the document has
C15_ResizeRepollsDocument ==
  [][(/\ lastOp'.op = "update"
      /\ \/ tornis.currWidth # tornis.lastWidth
         \/ tornis.currHeight # tornis.lastHeight) =>
       formatData(tornis').size.docY = document.scrollHeight]_vars

----------------------------------------------------------------------------
(* C16: the orientation baseline *)

Baseline(t) == <<t.initialAlpha, t.initialBeta, t.initialGamma>>

\* C16: an orientation event that is not the first one (where every event
\* is an orientation event, nEvents counts them) leaves the baseline
\* (initial alpha, beta, gamma) as it was, whatever the readings are
C16_LaterEventsKeepBaseline ==
  [][(lastOp'.op = "deviceorientation" /\ nEvents > 0) =>
       Baseline(tornis') = Baseline(tornis)]_vars

----------------------------------------------------------------------------
(* C17: what the event listeners write *)

CurrentRaw == {"currWidth", "currHeight", "currMouseX", "currMouseY",
               "currAlpha", "currBeta", "currGamma"}
BaselineFields == {"initialAlpha", "initialBeta", "initialGamma"}

\* the step is the call of an event listener
HandlerStep == lastOp'.op \in {"resize", "mousemove", "deviceorientation"}

----------------------------------------------------------------------------
(* C18: the throttle *)

\* the call is the first one, or delay ms or more have passed since the
\* last call that ran
Due(delay, last) == last = 0 \/ now - last >= delay

\* the dropped call: neither the store nor any reference time changes
Dropped == tornis' = tornis /\ lastCall' = lastCall

\* C18: a call of a throttled listener runs the listener, and becomes the
\* reference time, exactly when it is the first call or at least the delay
\* has passed since the last call that ran; a call that is dropped changes
\* nothing, and no step other than a call of the listener runs it later
C18_ThrottleSemantics ==
  [][/\ lastOp'.op = "resize" =>
          IF Due(ResizeDelay, lastCall.resize)
          THEN /\ tornis' = [tornis EXCEPT !.currWidth = window'.innerWidth,
                                           !.currHeight = window'.innerHeight]
               /\ lastCall' = [lastCall EXCEPT !.resize = now]
          ELSE Dropped
     /\ lastOp'.op = "mousemove" =>
          IF Due(MouseDelay, lastCall.mouse)
          THEN /\ \E x \in MouseVals, y \in MouseVals :
                    tornis' = [tornis EXCEPT !.currMouseX = x, !.currMouseY = y]
               /\ lastCall' = [lastCall EXCEPT !.mouse = now]
          ELSE Dropped
     /\ lastOp'.op \notin {"resize", "mousemove"} =>
          /\ lastCall' = lastCall
          /\ \A f \in {"currWidth", "currHeight", "currMouseX", "currMouseY"} :
                tornis'[f] = tornis[f]]_vars

\* a mousemove has been dropped: an earlier one ran, time has passed since,
\* less than the delay, and the store still holds the earlier position
C18_Witness ==
  /\ lastOp.op = "mousemove"
  /\ lastCall.mouse # 0
  /\ lastCall.mouse < now
  /\ now - lastCall.mouse < MouseDelay
  /\ lastCall.resize = 0

\* a resize has run exactly ResizeDelay ms after the resize before it
C18_WitnessBoundary ==
  /\ lastOp.op = "resize"
  /\ lastCall.resize = StartTime + ResizeDelay
  /\ tornis.currWidth = window.innerWidth
  /\ nEvents = 2

----------------------------------------------------------------------------
(* C19: the tick routine entered while a tick is in progress *)

\* C19: when a subscriber invokes the tick routine during the dispatch of a
\* tick, that invocation does nothing: the tick ends with the store as it
\* reconciled it, with each registered subscriber called once, and with
\* one frame requested
C19_ReentryDoesNothing ==
  [][(/\ lastOp'.op = "update"
      /\ \E i \in DOMAIN invoked' : Reenters(invoked'[i].cb)) =>
       /\ tornis' = reconcile(tornis, window, document)
       /\ InvokedCallbacks(invoked') = tornis.callbacks
       /\ raf' = raf]_vars

----------------------------------------------------------------------------
(* C20: the store settles when the natives stand still *)

\* every velocity the snapshot reports is 0
ReportsNoVelocity(data) ==
  /\ data.scroll.velocity = [x |-> 0, y |-> 0]
  /\ data.mouse.velocity = [x |-> 0, y |-> 0]
  /\ data.position.velocity = [x |-> 0, y |-> 0]

\* C20: counting from the tick that recorded the last native change, the
\* seventh tick that finds every native value as the store recorded it,
\* and every such tick after it, ends with all changed flags false and all
\* reported velocities 0, and calls no subscriber
C20_SettlesInSevenTicks ==
  [][(lastOp'.op = "update" /\ quietTicks' >= SettleTicks) =>
       /\ ~anyChange(tornis')
       /\ ReportsNoVelocity(formatData(tornis'))
       /\ invoked' = <<>>]_vars

\* the seventh quiet tick after a mouse move, with a subscriber registered:
\* the move has only just left the full buffers
C20_Witness ==
  /\ lastOp.op = "update"
  /\ quietTicks = SettleTicks
  /\ tornis.callbacks # <<>>
  /\ tornis.lastMouseX # 0
  /\ Len(tornis.mouseXVelocity) = BufferLimit + 1
  /\ history[Len(history)].scroll.changed = FALSE

----------------------------------------------------------------------------
(* C21: the subscribers of one dispatch *)

\* the tick that is taken dispatches: its reconciled store reports a change
Dispatches == anyChange(reconcile(tornis, window, document))

\* C21: a tick that dispatches calls exactly the callbacks that were
\* registered when the dispatch began, each registration once and in
\* order, whatever the subscribers watch and unwatch during it
C21_DispatchSetFixed ==
  [][(lastOp'.op = "update" /\ Dispatches) =>
       InvokedCallbacks(invoked') = tornis.callbacks]_vars

\* the same for the ticks whose dispatch no exception ends: the callbacks
\* called are those registered when the dispatch began
DispatchSetFixedUnlessThrown ==
  [][(lastOp'.op = "update" /\ Dispatches /\ thrown' = "none") =>
       InvokedCallbacks(invoked') = tornis.callbacks]_vars

\* a tick has called g after unwatcher removed it during the same dispatch
UnwatchedStillCalled ==
  /\ lastOp.op = "update"
  /\ InvokedCallbacks(invoked) = <<"unwatcher", "g">>
  /\ tornis.callbacks = <<"unwatcher">>

\* a tick has called watcher alone, and g is registered after it
WatchedNotYetCalled ==
  /\ lastOp.op = "update"
  /\ InvokedCallbacks(invoked) = <<"watcher">>
  /\ tornis.callbacks = <<"watcher", "g">>

====
